---- MODULE Spec2Model ----
(***************************************************************************)
(* Payoff-at-expiration functions and break-even detection of              *)
(* option_payoffs.py.  The library is stateless: the state of the model    *)
(* is the call in progress (op), its arguments and the value it returned.  *)
(* Numbers are integers; strings are sequences of one-character strings so *)
(* that the substring tests of graph_payoffs are computed, not assumed.    *)
(***************************************************************************)
EXTENDS Integers, Sequences, FiniteSets, TLC

VARIABLES op, S, X, N, option_premium, buy_price,
          selected_positions, payoff_df, result

vars == <<op, S, X, N, option_premium, buy_price,
          selected_positions, payoff_df, result>>

(* ---------------- bounds of the explored inputs ---------------- *)
MaxLen == 5
MaxStart == 0
MaxStep == 2
MaxStrike == 4
MaxN == 2
MaxPremium == 2
MaxPayoff == 1

(* spot grids: evenly spaced, strictly increasing, 1..MaxLen points *)
Grids ==
  { [i \in 1..len |-> start + (i - 1) * step] :
      start \in 0..MaxStart, step \in 1..MaxStep, len \in 1..MaxLen }

Strikes == 0..MaxStrike
Quantities == 0..MaxN
Premiums == 0..MaxPremium
(* cells of a payoff column: a unit loss, zero, or a gain up to MaxPayoff *)
PayoffValues == (0 - 1)..MaxPayoff

(* ---------------- Python helpers ---------------- *)
max(a, b) == IF a >= b THEN a ELSE b

(* the tuple (payoff, break_even) written by a return statement *)
Tuple(payoff, bep) == [type |-> "tuple", payoff |-> payoff, bep |-> bep]

(* a bare list returned on its own *)
List(payoff) == [type |-> "list", payoff |-> payoff]

(* ---------------- payoff functions at maturity ---------------- *)
Long_Stock(s, bp, n) ==
  Tuple([i \in DOMAIN s |-> (s[i] - bp) * n], bp)

Short_Stock(s, bp, n) ==
  Tuple([i \in DOMAIN s |-> (-(s[i] - bp)) * n], bp)

Long_ZCB(s, x) ==
  List([i \in 1..Len(s) |-> x])

(* Short_ZCB paying +X like the long bond *)
Short_ZCBPositive(s, x) ==
  List([i \in 1..Len(s) |-> x])

Short_ZCB(s, x) ==
  List([i \in 1..Len(s) |-> -x])

Long_Call(s, x, n, p) ==
  Tuple([i \in DOMAIN s |-> (max(0, s[i] - x) - p) * n], x + p)

(* Short_Call with the leading minus sign lost *)
Short_CallUnsigned(s, x, n, p) ==
  Tuple([i \in DOMAIN s |-> (max(0, s[i] - x) - p) * n], x + p)

Short_Call(s, x, n, p) ==
  Tuple([i \in DOMAIN s |-> (-(max(0, s[i] - x) - p)) * n], x + p)

(* Long_Put with the call's intrinsic value s - X *)
Long_PutCallValue(s, x, n, p) ==
  Tuple([i \in DOMAIN s |-> (max(0, s[i] - x) - p) * n], x - p)

Long_Put(s, x, n, p) ==
  Tuple([i \in DOMAIN s |-> (max(0, x - s[i]) - p) * n], x - p)

(* Short_Put with the call's break-even X + premium *)
Short_PutCallBEP(s, x, n, p) ==
  Tuple([i \in DOMAIN s |-> (-(max(0, x - s[i]) - p)) * n], x + p)

Short_Put(s, x, n, p) ==
  Tuple([i \in DOMAIN s |-> (-(max(0, x - s[i]) - p)) * n], x - p)


(* ---------------- strings ---------------- *)
Call == <<"C", "a", "l", "l">>
Put == <<"P", "u", "t">>
SyntheticPosition ==
  <<"S", "y", "n", "t", "h", "e", "t", "i", "c", " ",
    "P", "o", "s", "i", "t", "i", "o", "n">>
LongStockName == <<"L", "o", "n", "g", " ", "S", "t", "o", "c", "k">>
LongCallName == <<"L", "o", "n", "g", " ", "C", "a", "l", "l">>
ShortCallName == <<"S", "h", "o", "r", "t", " ", "C", "a", "l", "l">>
LongPutName == <<"L", "o", "n", "g", " ", "P", "u", "t">>
ShortPutName == <<"S", "h", "o", "r", "t", " ", "P", "u", "t">>
StrangleName == LongPutName \o <<" ", "+", " ">> \o LongCallName

(* column names a caller gives to the positions of a payoff table *)
PositionNames ==
  { LongStockName, LongCallName, ShortCallName, LongPutName, ShortPutName,
    StrangleName }

(* Python's  sub in str  on strings *)
In(sub, str) ==
  \E k \in 0..(Len(str) - Len(sub)) : SubSeq(str, k + 1, k + Len(sub)) = sub

(* ---------------- pandas helpers ---------------- *)
(* a float cell of a Series: <<v>> is the number v, <<>> is NaN *)
NaN == <<>>

(* col.isin([0]).sum() *)
isin0sum(col) == Cardinality({ i \in DOMAIN col : col[i] = 0 })

RECURSIVE ZeroIndex(_, _, _)
(* col[col == 0].index : the labels of the zero cells, in order, from k on *)
ZeroIndex(index, col, k) ==
  IF k > Len(col) THEN <<>>
  ELSE IF col[k] = 0 THEN <<index[k]>> \o ZeroIndex(index, col, k + 1)
  ELSE ZeroIndex(index, col, k + 1)

(* col.shift(-1) : every cell takes its successor, the last becomes NaN *)
shift(col) ==
  [i \in DOMAIN col |-> IF i < Len(col) THEN <<col[i + 1]>> ELSE NaN]

RECURSIVE pad(_, _)
(* cell k of series.replace(np.nan): with no value given the NaN cells are
   forward-filled from the cell before them *)
pad(series, k) ==
  IF series[k] # NaN THEN series[k]
  ELSE IF k = 1 THEN NaN
  ELSE pad(series, k - 1)

(* replace(np.nan) leaving the NaN cells as they are *)
replace_nanNoFill(series) == series

replace_nan(series) == [i \in DOMAIN series |-> pad(series, i)]

(* col == col.shift(-1).replace(np.nan) *)
lagged_comparison(col) ==
  [i \in DOMAIN col |-> <<col[i]>> = replace_nan(shift(col))[i]]

(* series.where(series == True).first_valid_index(): <<label>>, or <<>>
   (None) when no cell is True *)
first_valid_index(index, flags) ==
  LET hits == { i \in DOMAIN flags : flags[i] }
  IN  IF hits = {} THEN <<>>
      ELSE <<index[CHOOSE i \in hits : \A j \in hits : i <= j]>>

Entry(position, branch, printed, scatter) ==
  [position |-> position, branch |-> branch,
   printed |-> printed, scatter |-> scatter]

(* the loop body with index[0] for a 'Call' name too *)
PositionBEPFirst(position, df) ==
  LET col == df.columns[position]
      zeros == ZeroIndex(df.index, col, 1)
  IN  IF isin0sum(col) > 1
        THEN IF In(Call, position)
               THEN Entry(position, "last", <<zeros[1]>>, <<zeros[1]>>)
             ELSE IF In(Put, position)
               THEN Entry(position, "first", <<zeros[1]>>, <<zeros[1]>>)
             ELSE Entry(position, "skip", <<>>, <<>>)
      ELSE IF isin0sum(col) > 0
        THEN Entry(position, "single", <<zeros[1]>>, zeros)
      ELSE Entry(position, "none", <<>>, <<>>)

(* body of the loop over selected_positions *)
PositionBEP(position, df) ==
  LET col == df.columns[position]
      zeros == ZeroIndex(df.index, col, 1)
  IN  IF isin0sum(col) > 1
        THEN IF In(Call, position)
               THEN Entry(position, "last", <<zeros[Len(zeros)]>>,
                          <<zeros[Len(zeros)]>>)
             ELSE IF In(Put, position)
               THEN Entry(position, "first", <<zeros[1]>>, <<zeros[1]>>)
             ELSE Entry(position, "skip", <<>>, <<>>)
      ELSE IF isin0sum(col) > 0
        THEN Entry(position, "single", <<zeros[1]>>, zeros)
      ELSE Entry(position, "none", <<>>, <<>>)

(* the synthetic block with the unfiltered index in its last branch *)
SyntheticBEPWholeIndex(df) ==
  LET col == df.columns[SyntheticPosition]
      zeros == ZeroIndex(df.index, col, 1)
      BEP_PF == first_valid_index(df.index, lagged_comparison(col))
  IN  IF isin0sum(col) = 2
        THEN Entry(SyntheticPosition, "two", zeros, zeros)
      ELSE IF isin0sum(col) > 1
        THEN Entry(SyntheticPosition, "plateau", BEP_PF, BEP_PF)
      ELSE IF isin0sum(col) > 0
        THEN Entry(SyntheticPosition, "single", <<df.index[1]>>, df.index)
      ELSE Entry(SyntheticPosition, "none", <<>>, <<>>)

(* the synthetic block without its  == 2  branch *)
SyntheticBEPNoPair(df) ==
  LET col == df.columns[SyntheticPosition]
      zeros == ZeroIndex(df.index, col, 1)
      BEP_PF == first_valid_index(df.index, lagged_comparison(col))
  IN  IF isin0sum(col) > 1
        THEN Entry(SyntheticPosition, "plateau", BEP_PF, BEP_PF)
      ELSE IF isin0sum(col) > 0
        THEN Entry(SyntheticPosition, "single", <<zeros[1]>>, zeros)
      ELSE Entry(SyntheticPosition, "none", <<>>, <<>>)

(* the block under  if 'Synthetic Position' in payoff_df.columns *)
SyntheticBEP(df) ==
  LET col == df.columns[SyntheticPosition]
      zeros == ZeroIndex(df.index, col, 1)
      BEP_PF == first_valid_index(df.index, lagged_comparison(col))
  IN  IF isin0sum(col) = 2
        THEN Entry(SyntheticPosition, "two", zeros, zeros)
      ELSE IF isin0sum(col) > 1
        THEN Entry(SyntheticPosition, "plateau", BEP_PF, BEP_PF)
      ELSE IF isin0sum(col) > 0
        THEN Entry(SyntheticPosition, "single", <<zeros[1]>>, zeros)
      ELSE Entry(SyntheticPosition, "none", <<>>, <<>>)

RECURSIVE seqmax(_, _)
(* max of the first k cells of a non-empty sequence *)
seqmax(s, k) == IF k = 1 THEN s[1] ELSE max(seqmax(s, k - 1), s[k])

(* payoff_df.max(axis=0).max() *)
yscale(df) ==
  LET colmax == { seqmax(df.columns[c], Len(df.columns[c])) :
                    c \in DOMAIN df.columns }
  IN  CHOOSE m \in colmax : \A o \in colmax : o <= m

(* what one call prints and draws *)
graph_payoffs(selected, s, df) ==
  [type |-> "figure",
   entries |->
     [k \in 1..Len(selected) |-> PositionBEP(selected[k], df)]
     \o (IF SyntheticPosition \in DOMAIN df.columns
           THEN <<SyntheticBEP(df)>> ELSE <<>>),
   xlim |-> <<0, seqmax(s, Len(s))>>,
   ylim |-> <<-yscale(df), yscale(df)>>]

(* ---------------- payoff tables handed to graph_payoffs ---------------- *)
Columns(len) == [1..len -> PayoffValues]

RECURSIVE SumColumns(_, _, _)
(* elementwise sum of the first k selected columns *)
SumColumns(columns, selected, k) ==
  IF k = 0 THEN [i \in 1..Len(columns[selected[1]]) |-> 0]
  ELSE LET rest == SumColumns(columns, selected, k - 1)
       IN  [i \in DOMAIN rest |-> rest[i] + columns[selected[k]][i]]

(* the table a caller builds: one column per position, indexed by the
   spot grid, and optionally the 'Synthetic Position' column *)
PayoffTable(s, position, col, synthetic) ==
  LET cols == [c \in {position} |-> col]
  IN  [index |-> s,
       columns |->
         IF synthetic
           THEN [c \in {position, SyntheticPosition} |->
                   IF c = position THEN col
                   ELSE SumColumns(cols, <<position>>, 1)]
           ELSE cols]

(* ---------------- the state machine ---------------- *)
NoTable == [index |-> <<>>, columns |-> <<>>]

Init ==
  /\ op = "idle"
  /\ S = <<>>
  /\ X = 0
  /\ N = 0
  /\ option_premium = 0
  /\ buy_price = 0
  /\ selected_positions = <<>>
  /\ payoff_df = NoTable
  /\ result = [type |-> "none"]

StockCall(name, s, bp, n) ==
  /\ op' = name
  /\ S' = s
  /\ buy_price' = bp
  /\ N' = n
  /\ UNCHANGED <<X, option_premium, selected_positions, payoff_df>>

ZCBCall(name, s, x) ==
  /\ op' = name
  /\ S' = s
  /\ X' = x
  /\ UNCHANGED <<N, option_premium, buy_price, selected_positions, payoff_df>>

OptionCall(name, s, x, n, p) ==
  /\ op' = name
  /\ S' = s
  /\ X' = x
  /\ N' = n
  /\ option_premium' = p
  /\ UNCHANGED <<buy_price, selected_positions, payoff_df>>

CallLongStock ==
  /\ op = "idle"
  /\ \E s \in Grids, bp \in Strikes, n \in Quantities :
      /\ StockCall("Long_Stock", s, bp, n)
      /\ result' = Long_Stock(s, bp, n)

CallShortStock ==
  /\ op = "idle"
  /\ \E s \in Grids, bp \in Strikes, n \in Quantities :
      /\ StockCall("Short_Stock", s, bp, n)
      /\ result' = Short_Stock(s, bp, n)

CallLongZCB ==
  /\ op = "idle"
  /\ \E s \in Grids, x \in Strikes :
      /\ ZCBCall("Long_ZCB", s, x)
      /\ result' = Long_ZCB(s, x)

CallShortZCB ==
  /\ op = "idle"
  /\ \E s \in Grids, x \in Strikes :
      /\ ZCBCall("Short_ZCB", s, x)
      /\ result' = Short_ZCB(s, x)

CallLongCall ==
  /\ op = "idle"
  /\ \E s \in Grids, x \in Strikes, n \in Quantities, p \in Premiums :
      /\ OptionCall("Long_Call", s, x, n, p)
      /\ result' = Long_Call(s, x, n, p)

CallShortCall ==
  /\ op = "idle"
  /\ \E s \in Grids, x \in Strikes, n \in Quantities, p \in Premiums :
      /\ OptionCall("Short_Call", s, x, n, p)
      /\ result' = Short_Call(s, x, n, p)

CallLongPut ==
  /\ op = "idle"
  /\ \E s \in Grids, x \in Strikes, n \in Quantities, p \in Premiums :
      /\ OptionCall("Long_Put", s, x, n, p)
      /\ result' = Long_Put(s, x, n, p)

CallShortPut ==
  /\ op = "idle"
  /\ \E s \in Grids, x \in Strikes, n \in Quantities, p \in Premiums :
      /\ OptionCall("Short_Put", s, x, n, p)
      /\ result' = Short_Put(s, x, n, p)

CallGraphPayoffs ==
  /\ op = "idle"
  /\ \E s \in Grids, position \in PositionNames, synthetic \in BOOLEAN :
      \E col \in Columns(Len(s)) :
        /\ op' = "graph_payoffs"
        /\ S' = s
        /\ selected_positions' = <<position>>
        /\ payoff_df' = PayoffTable(s, position, col, synthetic)
        /\ result' = graph_payoffs(<<position>>, s,
                                   PayoffTable(s, position, col, synthetic))
        /\ UNCHANGED <<X, N, option_premium, buy_price>>

(* the caller drops the returned value; the next call starts afresh *)
Return ==
  /\ op # "idle"
  /\ op' = "idle"
  /\ S' = <<>>
  /\ X' = 0
  /\ N' = 0
  /\ option_premium' = 0
  /\ buy_price' = 0
  /\ selected_positions' = <<>>
  /\ payoff_df' = NoTable
  /\ result' = [type |-> "none"]

Next ==
  \/ CallLongStock
  \/ CallShortStock
  \/ CallLongZCB
  \/ CallShortZCB
  \/ CallLongCall
  \/ CallShortCall
  \/ CallLongPut
  \/ CallShortPut
  \/ CallGraphPayoffs
  \/ Return

Spec == Init /\ [][Next]_vars

(* ---------------- properties ---------------- *)

(* C1: for every instrument the payoff of the Long position plus the payoff
   of the Short position built with the same arguments is 0 at every index
   of S. *)
LongShortSymmetry ==
  /\ op = "Long_Stock" =>
       \A i \in DOMAIN S :
         result.payoff[i] + Short_Stock(S, buy_price, N).payoff[i] = 0
  /\ op = "Short_Stock" =>
       \A i \in DOMAIN S :
         Long_Stock(S, buy_price, N).payoff[i] + result.payoff[i] = 0
  /\ op = "Long_ZCB" =>
       \A i \in DOMAIN S : result.payoff[i] + Short_ZCB(S, X).payoff[i] = 0
  /\ op = "Short_ZCB" =>
       \A i \in DOMAIN S : Long_ZCB(S, X).payoff[i] + result.payoff[i] = 0
  /\ op = "Long_Call" =>
       \A i \in DOMAIN S :
         result.payoff[i] + Short_Call(S, X, N, option_premium).payoff[i] = 0
  /\ op = "Short_Call" =>
       \A i \in DOMAIN S :
         Long_Call(S, X, N, option_premium).payoff[i] + result.payoff[i] = 0
  /\ op = "Long_Put" =>
       \A i \in DOMAIN S :
         result.payoff[i] + Short_Put(S, X, N, option_premium).payoff[i] = 0
  /\ op = "Short_Put" =>
       \A i \in DOMAIN S :
         Long_Put(S, X, N, option_premium).payoff[i] + result.payoff[i] = 0

(* a long call that gains at one spot and loses at another *)
LongShortSymmetryWitness ==
  /\ op = "Long_Call"
  /\ \E i \in DOMAIN S : result.payoff[i] > 0
  /\ \E j \in DOMAIN S : result.payoff[j] < 0

(* C2: Long_Call (Long_Put) returns a payoff sequence as long as S whose
   i-th entry is (max(0, S[i]-X) - premium)*N ((max(0, X-S[i]) - premium)*N);
   Short_Call and Short_Put return the negation of each entry; the grid
   80..120 with X=100, N=1, premium=5 gives [-5,-5,-5,5,15]. *)
OptionPayoffFormula ==
  LET call(i) == IF S[i] > X THEN S[i] - X ELSE 0
      put(i) == IF X > S[i] THEN X - S[i] ELSE 0
  IN  /\ op \in {"Long_Call", "Short_Call", "Long_Put", "Short_Put"} =>
           DOMAIN result.payoff = 1..Len(S)
      /\ op = "Long_Call" =>
           \A i \in 1..Len(S) :
             result.payoff[i] = (call(i) - option_premium) * N
      /\ op = "Short_Call" =>
           \A i \in 1..Len(S) :
             result.payoff[i] = 0 - (call(i) - option_premium) * N
      /\ op = "Long_Put" =>
           \A i \in 1..Len(S) :
             result.payoff[i] = (put(i) - option_premium) * N
      /\ op = "Short_Put" =>
           \A i \in 1..Len(S) :
             result.payoff[i] = 0 - (put(i) - option_premium) * N
      /\ op = "Long_Call" =>
           Long_Call(<<80, 90, 100, 110, 120>>, 100, 1, 5).payoff
             = <<-5, -5, -5, 5, 15>>

(* a short put with a premium, several contracts, spots on both sides of
   the strike *)
OptionPayoffFormulaWitness ==
  /\ op = "Short_Put"
  /\ option_premium > 0
  /\ N > 1
  /\ \E i \in DOMAIN S : S[i] < X
  /\ \E j \in DOMAIN S : S[j] > X

(* C3: the break-even returned as second component is X + premium for
   Long_Call and Short_Call, X - premium for Long_Put and Short_Put, and
   buy_price for Long_Stock and Short_Stock. *)
BreakEvenPrice ==
  /\ op \in {"Long_Call", "Short_Call"} => result.bep = X + option_premium
  /\ op \in {"Long_Put", "Short_Put"} => result.bep = X - option_premium
  /\ op \in {"Long_Stock", "Short_Stock"} => result.bep = buy_price

(* a put whose premium moves the break-even below the strike *)
BreakEvenPriceWitness ==
  /\ op = "Long_Put"
  /\ option_premium > 0
  /\ result.bep < X

(* C4 as stated: every payoff function, Long_ZCB and Short_ZCB included,
   returns a pair (payoff_sequence, break_even_price) whose first component
   is aligned with S; for the bond the sequence is the constant +X or -X. *)
EveryFunctionReturnsPair ==
  op \in {"Long_Stock", "Short_Stock", "Long_ZCB", "Short_ZCB",
          "Long_Call", "Short_Call", "Long_Put", "Short_Put"} =>
    /\ result.type = "tuple"
    /\ DOMAIN result.payoff = 1..Len(S)
    /\ op = "Long_ZCB" => \A i \in 1..Len(S) : result.payoff[i] = X
    /\ op = "Short_ZCB" => \A i \in 1..Len(S) : result.payoff[i] = 0 - X

(* C4 amended: the stock, call and put functions return a pair whose first
   component is aligned with S; Long_ZCB and Short_ZCB return the payoff
   sequence alone, aligned with S and constant +X (long) or -X (short). *)
PairExceptZCB ==
  /\ op \in {"Long_Stock", "Short_Stock",
             "Long_Call", "Short_Call", "Long_Put", "Short_Put"} =>
       /\ result.type = "tuple"
       /\ DOMAIN result.payoff = 1..Len(S)
  /\ op \in {"Long_ZCB", "Short_ZCB"} =>
       /\ result.type = "list"
       /\ DOMAIN result.payoff = 1..Len(S)
  /\ op = "Long_ZCB" => \A i \in 1..Len(S) : result.payoff[i] = X
  /\ op = "Short_ZCB" => \A i \in 1..Len(S) : result.payoff[i] = 0 - X

(* a short bond of positive par value over several spots *)
PairExceptZCBWitness ==
  /\ op = "Short_ZCB"
  /\ X > 0
  /\ Len(S) > 1
  /\ result.type = "list"

(* C5 as stated: for a selected position whose column holds more than one
   zero, a name containing 'Call' gets the last zero-payoff spot as its
   single break-even and a name containing 'Put' gets the first one; the
   premium=0 Long_Call column with X in the grid gets its last zero spot. *)
CallLastPutFirst ==
  op = "graph_payoffs" =>
    \A k \in 1..Len(selected_positions) :
      LET name == selected_positions[k]
          col == payoff_df.columns[name]
          Z == { i \in 1..Len(S) : col[i] = 0 }
          lastZ == CHOOSE i \in Z : \A j \in Z : j <= i
          firstZ == CHOOSE i \in Z : \A j \in Z : i <= j
          e == result.entries[k]
      IN  Cardinality(Z) > 1 =>
            /\ In(Call, name) =>
                 e.printed = <<S[lastZ]>> /\ e.scatter = <<S[lastZ]>>
            /\ In(Put, name) =>
                 e.printed = <<S[firstZ]>> /\ e.scatter = <<S[firstZ]>>
            /\ \A x \in Strikes, n \in 1..MaxN :
                 ( /\ name = LongCallName
                   /\ \E i \in 1..Len(S) : S[i] = x
                   /\ col = Long_Call(S, x, n, 0).payoff )
                 => e.printed = <<x>>

(* C5 amended: the 'Put' rule applies to names that contain 'Put' and do
   not contain 'Call'; a name containing 'Call' always gets the last zero
   spot. *)
CallLastElsePutFirst ==
  op = "graph_payoffs" =>
    \A k \in 1..Len(selected_positions) :
      LET name == selected_positions[k]
          col == payoff_df.columns[name]
          Z == { i \in 1..Len(S) : col[i] = 0 }
          lastZ == CHOOSE i \in Z : \A j \in Z : j <= i
          firstZ == CHOOSE i \in Z : \A j \in Z : i <= j
          e == result.entries[k]
      IN  Cardinality(Z) > 1 =>
            /\ In(Call, name) =>
                 e.printed = <<S[lastZ]>> /\ e.scatter = <<S[lastZ]>>
            /\ (In(Put, name) /\ ~In(Call, name)) =>
                 e.printed = <<S[firstZ]>> /\ e.scatter = <<S[firstZ]>>
            /\ \A x \in Strikes, n \in 1..MaxN :
                 ( /\ name = LongCallName
                   /\ \E i \in 1..Len(S) : S[i] = x
                   /\ col = Long_Call(S, x, n, 0).payoff )
                 => e.printed = <<x>>

(* the free long call struck at 1 on a grid with two spots at or below 1,
   reported at the strike *)
CallLastElsePutFirstWitness ==
  /\ op = "graph_payoffs"
  /\ selected_positions = <<LongCallName>>
  /\ payoff_df.columns[LongCallName] = Long_Call(S, 1, 1, 0).payoff
  /\ Len(S) > 2
  /\ S[2] = 1
  /\ result.entries[1].printed = <<1>>

(* C6: a column (selected position or 'Synthetic Position') holding exactly
   one zero gets exactly one break-even, the spot whose payoff is 0; a
   column holding no zero gets none. *)
SingleZeroReported ==
  op = "graph_payoffs" =>
    /\ Len(result.entries) =
         Len(selected_positions)
           + (IF SyntheticPosition \in DOMAIN payoff_df.columns THEN 1 ELSE 0)
    /\ \A k \in 1..Len(selected_positions) :
         result.entries[k].position = selected_positions[k]
    /\ \A k \in (Len(selected_positions) + 1)..Len(result.entries) :
         result.entries[k].position = SyntheticPosition
    /\ \A k \in 1..Len(result.entries) :
         LET e == result.entries[k]
             col == payoff_df.columns[e.position]
             Z == { i \in 1..Len(S) : col[i] = 0 }
         IN  /\ Cardinality(Z) = 1 =>
                  \A i \in Z : e.printed = <<S[i]>> /\ e.scatter = <<S[i]>>
             /\ Cardinality(Z) = 0 => e.printed = <<>> /\ e.scatter = <<>>

(* a synthetic column whose only zero is not at the first spot *)
SingleZeroReportedWitness ==
  /\ op = "graph_payoffs"
  /\ SyntheticPosition \in DOMAIN payoff_df.columns
  /\ Len(S) > 2
  /\ isin0sum(payoff_df.columns[SyntheticPosition]) = 1
  /\ payoff_df.columns[SyntheticPosition][1] # 0
  /\ Len(result.entries[2].printed) = 1

(* C7: when the 'Synthetic Position' column holds exactly two zeros the
   reported set equals the set of the two zero-payoff spots. *)
TwoZerosBothReported ==
  (op = "graph_payoffs" /\ SyntheticPosition \in DOMAIN payoff_df.columns) =>
    LET e == result.entries[Len(result.entries)]
        col == payoff_df.columns[SyntheticPosition]
        Z == { i \in 1..Len(S) : col[i] = 0 }
    IN  Cardinality(Z) = 2 =>
          /\ { e.printed[i] : i \in DOMAIN e.printed } = { S[i] : i \in Z }
          /\ { e.scatter[i] : i \in DOMAIN e.scatter } = { S[i] : i \in Z }

(* a straddle-like synthetic column: zero at two spots, away from zero
   between them *)
TwoZerosBothReportedWitness ==
  /\ op = "graph_payoffs"
  /\ SyntheticPosition \in DOMAIN payoff_df.columns
  /\ Len(S) > 3
  /\ payoff_df.columns[SyntheticPosition][2] = 0
  /\ payoff_df.columns[SyntheticPosition][3] # 0
  /\ payoff_df.columns[SyntheticPosition][4] = 0
  /\ isin0sum(payoff_df.columns[SyntheticPosition]) = 2
  /\ Len(result.entries[2].printed) = 2

(* C8: when the 'Synthetic Position' column holds more than two zeros the
   single spot reported is the first index whose payoff equals the payoff
   at the next index, the final index counting as equal to its filled-in
   successor; the branch is taken only when the zero count exceeds two. *)
PlateauFirstEqualPair ==
  (op = "graph_payoffs" /\ SyntheticPosition \in DOMAIN payoff_df.columns) =>
    LET e == result.entries[Len(result.entries)]
        col == payoff_df.columns[SyntheticPosition]
        Z == { i \in 1..Len(S) : col[i] = 0 }
        P == { i \in 1..Len(S) : i = Len(S) \/ col[i] = col[i + 1] }
        first == CHOOSE i \in P : \A j \in P : i <= j
    IN  /\ e.branch = "plateau" <=> Cardinality(Z) > 2
        /\ Cardinality(Z) > 2 =>
             e.printed = <<S[first]>> /\ e.scatter = <<S[first]>>

(* three zeros and no two neighbours equal: the final spot is reported *)
PlateauFirstEqualPairWitness ==
  /\ op = "graph_payoffs"
  /\ SyntheticPosition \in DOMAIN payoff_df.columns
  /\ Len(S) = 5
  /\ isin0sum(payoff_df.columns[SyntheticPosition]) = 3
  /\ \A i \in 1..4 : payoff_df.columns[SyntheticPosition][i]
                       # payoff_df.columns[SyntheticPosition][i + 1]
  /\ result.entries[2].branch = "plateau"
  /\ result.entries[2].printed = <<S[5]>>

(* C10: every spot graph_payoffs reports for a column is a spot of the grid
   at which that column's payoff equals 0, in every branch. *)
ReportedIsBreakEven ==
  op = "graph_payoffs" =>
    \A k \in 1..Len(result.entries) :
      LET e == result.entries[k]
          col == payoff_df.columns[e.position]
      IN  /\ \A m \in DOMAIN e.printed :
               \E i \in 1..Len(S) : S[i] = e.printed[m] /\ col[i] = 0
          /\ \A m \in DOMAIN e.scatter :
               \E i \in 1..Len(S) : S[i] = e.scatter[m] /\ col[i] = 0

====
